---- MODULE Spec2Model ----
(***************************************************************************)
(* Model of python/langsmith/evaluation/_integrations.py:                  *)
(* LangChainStringEvaluator wraps a LangChain StringEvaluator and exposes   *)
(* it as a run evaluator.  One evaluate(run, example) call is modelled as   *)
(* the steps of its body: prepare_evaluator_inputs, the call of             *)
(* evaluator.evaluate_strings, and the construction of the returned dict.   *)
(*                                                                          *)
(* Python values:                                                           *)
(*   Optional[T]   the empty tuple << >> is None, <<v>> is the value v      *)
(*   dict          a tuple of <<key, value>> pairs in iteration order,      *)
(*                 keys pairwise distinct                                   *)
(*   exception     a string naming it; "" means nothing was raised          *)
(***************************************************************************)
EXTENDS Naturals, Sequences, FiniteSets

VARIABLES evaluator, pc, run, example, eval_inputs, results, outcome, trace, seen

vars == <<evaluator, pc, run, example, eval_inputs, results, outcome, trace, seen>>

(* ---------------------------- bounds ----------------------------------- *)

\* largest number of entries of a run's or an example's mapping
MaxFields == 2

FieldNames == {"output", "answer"}
InputNames == {"question"}
Values == {"Paris", "Rome"}
EvaluationNames == {"exact_match", "embedding_distance"}
Behaviours == {"score", "keyed", "strict"}

(* ---------------------------- Python values ---------------------------- *)

None == << >>
Some(v) == <<v>>

DistinctKeys(d) == \A i, j \in 1..Len(d) : d[i][1] = d[j][1] => i = j

\* the dicts of at most MaxFields entries with keys in names
Mappings(names) ==
  UNION { {d \in [1..n -> names \X Values] : DistinctKeys(d)} : n \in 0..MaxFields }

Runs == [outputs : Mappings(FieldNames)]

Examples ==
  {None} \cup
  {Some(e) : e \in [outputs : Mappings(FieldNames), inputs : Mappings(InputNames)]}

Evaluators ==
  [requires_reference : BOOLEAN, evaluation_name : EvaluationNames, behaviour : Behaviours]

\* next(iter(d.values())) of a non-empty dict
FirstValue(d) == d[1][2]

HasKey(d, k) == \E i \in 1..Len(d) : d[i][1] = k

GetItem(d, k) == d[CHOOSE i \in 1..Len(d) : d[i][1] = k][2]

\* d[k] = v : an existing key keeps its position, a new key goes last
SetItem(d, k, v) ==
  IF HasKey(d, k)
    THEN [i \in 1..Len(d) |-> IF d[i][1] = k THEN <<k, v>> ELSE d[i]]
    ELSE Append(d, <<k, v>>)

RECURSIVE DictUpdate(_, _)
\* d.update(m) : the entries of m are set in m's iteration order
DictUpdate(d, m) ==
  IF m = << >> THEN d ELSE DictUpdate(SetItem(d, Head(m)[1], Head(m)[2]), Tail(m))

(* ---------------------------- exceptions ------------------------------- *)

MissingReferenceError == "ValueError: requires an reference example"
AttributeError == "AttributeError"
StopIteration == "StopIteration"
ScorerError == "ScorerError"

NullInputs == [prediction |-> None, reference |-> None, input |-> None]

Returned(v) == [raised |-> "", value |-> v]
Raised(err, v) == [raised |-> err, value |-> v]

(* ---------------------- prepare_evaluator_inputs ----------------------- *)

\* variant: the emptiness of example.outputs is not looked at
RequiresMissingReference_ignoring_outputs(ev, ex) ==
  ev.requires_reference /\ ex = None

\* the condition of the if statement that raises the ValueError
RequiresMissingReference(ev, ex) ==
  ev.requires_reference /\ (ex = None \/ ex[1].outputs = << >>)

\* prediction=next(iter(run.outputs.values())) if run.outputs else None
PredictionOf(r) ==
  IF r.outputs # << >> THEN Some(FirstValue(r.outputs)) ELSE None

\* reference=next(iter(example.outputs.values())) if example else None
\* an Example object is truthy; next() of an exhausted iterator raises
ReferenceOf(ex) ==
  IF ex # None
    THEN IF ex[1].outputs = << >>
           THEN Raised(StopIteration, None)
           ELSE Returned(Some(FirstValue(ex[1].outputs)))
    ELSE Returned(None)

\* variant: ... if example and example.inputs else None
InputOf_guarded(ex) ==
  IF ex # None /\ ex[1].inputs # << >>
    THEN Returned(Some(FirstValue(ex[1].inputs)))
    ELSE Returned(None)

\* input=next(iter(example.inputs.values())) if example.inputs else None
\* example.inputs is evaluated first: None has no attribute inputs
InputOf(ex) ==
  IF ex = None
    THEN Raised(AttributeError, None)
    ELSE IF ex[1].inputs # << >>
           THEN Returned(Some(FirstValue(ex[1].inputs)))
           ELSE Returned(None)

\* variant: no validation, and every field defaults to None
prepare_evaluator_inputs_lenient(ev, r, ex) ==
  Returned([prediction |-> PredictionOf(r),
            reference |-> IF ex # None /\ ex[1].outputs # << >>
                            THEN Some(FirstValue(ex[1].outputs)) ELSE None,
            input |-> IF ex # None /\ ex[1].inputs # << >>
                        THEN Some(FirstValue(ex[1].inputs)) ELSE None])

prepare_evaluator_inputs(ev, r, ex) ==
  IF RequiresMissingReference(ev, ex)
    THEN Raised(MissingReferenceError, NullInputs)
    ELSE LET p == PredictionOf(r)
             ref == ReferenceOf(ex)
             inp == InputOf(ex)
         IN  IF ref.raised # "" THEN Raised(ref.raised, NullInputs)
             ELSE IF inp.raised # "" THEN Raised(inp.raised, NullInputs)
             ELSE Returned([prediction |-> p, reference |-> ref.value, input |-> inp.value])

(* ------------------------------ evaluate ------------------------------- *)

\* variant: prediction and reference passed in each other's place
KeywordArguments_swapped(inputs) ==
  [prediction |-> inputs.reference, reference |-> inputs.prediction, input |-> inputs.input]

\* the keyword arguments of self.evaluator.evaluate_strings(**eval_inputs)
KeywordArguments(inputs) ==
  [prediction |-> inputs.prediction, reference |-> inputs.reference, input |-> inputs.input]

Score(args) == IF args.prediction = args.reference THEN "1" ELSE "0"

\* the wrapped StringEvaluator: a pure function of its keyword arguments.
\* "score" returns a score, "keyed" also returns a "key" entry of its own,
\* "strict" raises when it is given no prediction.
evaluate_strings(ev, args) ==
  CASE ev.behaviour = "score" -> Returned(<< <<"score", Score(args)>> >>)
    [] ev.behaviour = "keyed" ->
         Returned(<< <<"score", Score(args)>>, <<"key", "custom_key">> >>)
    [] ev.behaviour = "strict" ->
         IF args.prediction = None
           THEN Raised(ScorerError, << >>)
           ELSE Returned(<< <<"score", Score(args)>> >>)

\* variant: {**results, "key": self.evaluator.evaluation_name}
ResultDict_name_last(ev, res) == DictUpdate(res, << <<"key", ev.evaluation_name>> >>)

\* {"key": self.evaluator.evaluation_name, **results}
ResultDict(ev, res) == DictUpdate(<< <<"key", ev.evaluation_name>> >>, res)

(* ------------------------------ state ---------------------------------- *)

NoOutcome == [kind |-> "none", error |-> "", value |-> << >>]

Unseen == [outcome |-> NoOutcome, again |-> FALSE]

\* the calls whose outcomes are compared across invocations
ProbeRuns == { [outputs |-> << >>], [outputs |-> << <<"output", "Paris">> >>] }
ProbeExamples ==
  { None,
    Some([outputs |-> << >>, inputs |-> << >>]),
    Some([outputs |-> << <<"answer", "Paris">> >>, inputs |-> << <<"question", "Rome">> >>]) }
ProbeCalls == ProbeRuns \X ProbeExamples

\* __init__: the instance holds the wrapped evaluator and nothing else
Init ==
  /\ evaluator \in Evaluators
  /\ pc = "idle"
  /\ run = [outputs |-> << >>]
  /\ example = None
  /\ eval_inputs = NullInputs
  /\ results = << >>
  /\ outcome = NoOutcome
  /\ trace = << >>
  /\ seen = [c \in ProbeCalls |-> Unseen]

\* entry of evaluate(run, example): a fresh frame
Enter(r, ex) ==
  /\ pc \in {"idle", "done"}
  /\ pc' = "prepare"
  /\ run' = r
  /\ example' = ex
  /\ eval_inputs' = NullInputs
  /\ results' = << >>
  /\ outcome' = NoOutcome
  /\ trace' = << >>
  /\ UNCHANGED <<evaluator, seen>>

Call == \E r \in Runs, ex \in Examples : Enter(r, ex)

CallProbe == \E c \in ProbeCalls : Enter(c[1], c[2])

\* variant: the prediction is popped from run.outputs instead of read
Prepare_popping ==
  /\ pc = "prepare"
  /\ LET p == prepare_evaluator_inputs(evaluator, run, example)
     IN  /\ trace' = Append(trace, [step |-> "prepare_evaluator_inputs", args |-> NullInputs])
         /\ IF p.raised # ""
              THEN /\ pc' = "done"
                   /\ outcome' = [kind |-> "raised", error |-> p.raised, value |-> << >>]
                   /\ UNCHANGED <<eval_inputs, run>>
              ELSE /\ pc' = "score"
                   /\ eval_inputs' = p.value
                   /\ run' = [outputs |-> IF run.outputs = << >> THEN << >> ELSE Tail(run.outputs)]
                   /\ UNCHANGED outcome
  /\ UNCHANGED <<evaluator, example, results, seen>>

\* eval_inputs = prepare_evaluator_inputs(run, example)
Prepare ==
  /\ pc = "prepare"
  /\ LET p == prepare_evaluator_inputs(evaluator, run, example)
     IN  /\ trace' = Append(trace, [step |-> "prepare_evaluator_inputs", args |-> NullInputs])
         /\ IF p.raised # ""
              THEN /\ pc' = "done"
                   /\ outcome' = [kind |-> "raised", error |-> p.raised, value |-> << >>]
                   /\ UNCHANGED eval_inputs
              ELSE /\ pc' = "score"
                   /\ eval_inputs' = p.value
                   /\ UNCHANGED outcome
  /\ UNCHANGED <<evaluator, run, example, results, seen>>

\* results = self.evaluator.evaluate_strings(**eval_inputs)
Evaluate ==
  /\ pc = "score"
  /\ LET args == KeywordArguments(eval_inputs)
         s == evaluate_strings(evaluator, args)
     IN  /\ trace' = Append(trace, [step |-> "evaluate_strings", args |-> args])
         /\ IF s.raised # ""
              THEN /\ pc' = "done"
                   /\ outcome' = [kind |-> "raised", error |-> s.raised, value |-> << >>]
                   /\ UNCHANGED results
              ELSE /\ pc' = "merge"
                   /\ results' = s.value
                   /\ UNCHANGED outcome
  /\ UNCHANGED <<evaluator, run, example, eval_inputs, seen>>

\* return {"key": self.evaluator.evaluation_name, **results}
Return ==
  /\ pc = "merge"
  /\ pc' = "done"
  /\ outcome' = [kind |-> "returned", error |-> "", value |-> ResultDict(evaluator, results)]
  /\ trace' = Append(trace, [step |-> "return", args |-> NullInputs])
  /\ UNCHANGED <<evaluator, run, example, eval_inputs, results, seen>>

\* the caller notes the outcome of a finished call, once per call: the first
\* outcome of each probe call is kept, a later call of it is marked
Observe ==
  /\ pc = "done"
  /\ <<run, example>> \in ProbeCalls
  /\ trace[Len(trace)].step # "observed"
  /\ ~seen[<<run, example>>].again
  /\ seen' = [seen EXCEPT ![<<run, example>>] =
                IF @ = Unseen THEN [outcome |-> outcome, again |-> FALSE]
                              ELSE [@ EXCEPT !.again = TRUE]]
  /\ trace' = Append(trace, [step |-> "observed", args |-> NullInputs])
  /\ UNCHANGED <<evaluator, pc, run, example, eval_inputs, results, outcome>>

Next == Call \/ Prepare \/ Evaluate \/ Return

Spec == Init /\ [][Next]_vars

NextRepeat == CallProbe \/ Prepare \/ Evaluate \/ Return \/ Observe

SpecRepeat == Init /\ [][NextRepeat]_vars

(* ------------------------------ properties ----------------------------- *)

Finished == pc = "done"

Steps == [i \in 1..Len(trace) |-> trace[i].step]

\* how often the wrapped evaluator was invoked in the current call
ScoreCalls == Cardinality({i \in 1..Len(trace) : trace[i].step = "evaluate_strings"})

\* prepare_evaluator_inputs has returned, respectively raised, in the current call
PrepareReturned == Len(trace) >= 1 /\ ~(pc = "done" /\ Len(trace) = 1)
PrepareRaised == pc = "done" /\ Len(trace) >= 1 /\ ScoreCalls = 0

InCall == pc \notin {"idle", "prepare"}

\* the evaluator requires a reference and the call brings none
ReferenceMissing ==
  evaluator.requires_reference /\ (example = None \/ example[1].outputs = << >>)

ExpectedPrediction == IF run.outputs = << >> THEN None ELSE Some(run.outputs[1][2])

\* C1 as stated: whenever evaluate returns a mapping, its "key" entry is the
\* evaluator's declared name, also when the evaluator's result has a "key"
\* entry of its own.
C1_KeyIsDeclaredName ==
  outcome.kind = "returned" =>
    /\ HasKey(outcome.value, "key")
    /\ GetItem(outcome.value, "key") = evaluator.evaluation_name

\* C1 as amended: whenever evaluate returns a mapping, its "key" entry is the
\* "key" entry of the evaluator's result when that has one, and the
\* evaluator's declared name otherwise.
C1_KeyIsResultKeyElseName ==
  outcome.kind = "returned" =>
    /\ HasKey(outcome.value, "key")
    /\ GetItem(outcome.value, "key") =
         IF HasKey(results, "key") THEN GetItem(results, "key")
                                   ELSE evaluator.evaluation_name

C1_Witness ==
  /\ outcome.kind = "returned"
  /\ HasKey(results, "key")
  /\ GetItem(results, "key") # evaluator.evaluation_name

\* C2: a finished evaluate call has failed with the missing-reference error
\* exactly when the evaluator requires a reference and the example is None
\* or has empty outputs.
C2_MissingReferenceIff ==
  Finished =>
    ((outcome.kind = "raised" /\ outcome.error = MissingReferenceError) <=> ReferenceMissing)

C2_Witness ==
  /\ Finished
  /\ evaluator.requires_reference
  /\ example # None
  /\ example[1].outputs = << >>
  /\ outcome.error = MissingReferenceError

\* C3: in a call where the evaluator requires a reference and none is
\* given, the wrapped evaluator is never invoked, nothing is returned, and
\* the call ends raising.
C3_FailsBeforeScoring ==
  (pc # "idle" /\ ReferenceMissing) =>
    /\ ScoreCalls = 0
    /\ outcome.kind # "returned"
    /\ pc \in {"prepare", "done"}
    /\ Finished => outcome.kind = "raised"

C3_Witness == Finished /\ ReferenceMissing /\ outcome.kind = "raised" /\ Len(trace) = 1

\* C4: with requires_reference false and example None,
\* prepare_evaluator_inputs returns the triple (first value of run.outputs,
\* None, None).
C4_NullExampleTriple ==
  (InCall /\ ~evaluator.requires_reference /\ example = None) =>
    /\ PrepareReturned
    /\ eval_inputs =
         [prediction |-> ExpectedPrediction, reference |-> None, input |-> None]

\* C5: whatever the example, unless the reference it requires is missing,
\* prepare_evaluator_inputs returns a triple whose prediction is the first
\* value of run.outputs, and None when run.outputs is empty.
C5_PredictionIsFirstOutput ==
  (InCall /\ ~ReferenceMissing) =>
    /\ PrepareReturned
    /\ eval_inputs.prediction = ExpectedPrediction

\* C6: with requires_reference false and an example that is present,
\* prepare_evaluator_inputs returns, with reference None when
\* example.outputs is empty and its first value otherwise.
C6_ReferenceOfPresentExample ==
  (InCall /\ ~evaluator.requires_reference /\ example # None) =>
    /\ PrepareReturned
    /\ eval_inputs.reference =
         IF example[1].outputs = << >> THEN None ELSE Some(example[1].outputs[1][2])

\* C7: an error of the wrapped evaluator's call ends evaluate with that same
\* error and no result, and every other error evaluate ends with is the
\* missing-reference validation failure.
C7_OnlyValidationOrScorerErrors ==
  /\ (Finished /\ ScoreCalls = 1 /\ evaluate_strings(evaluator, trace[2].args).raised # "") =>
       /\ outcome.kind = "raised"
       /\ outcome.error = evaluate_strings(evaluator, trace[2].args).raised
  /\ (Finished /\ outcome.kind = "raised" /\ ScoreCalls = 0) =>
       outcome.error = MissingReferenceError

\* C8: a finished call has the outcome that the first call with the same
\* run and example had, whatever calls came in between, and no step of a
\* call changes the wrapped evaluator, the run or the example.
C8_SameOutcomeAsBefore ==
  (Finished /\ <<run, example>> \in ProbeCalls /\ seen[<<run, example>>] # Unseen) =>
    outcome = seen[<<run, example>>].outcome

C8_ArgumentsUntouched ==
  /\ evaluator' = evaluator
  /\ pc' # "prepare" => (run' = run /\ example' = example)

C8_Stateless == []C8_SameOutcomeAsBefore /\ [][C8_ArgumentsUntouched]_vars

C8_Witness ==
  /\ Finished
  /\ <<run, example>> \in ProbeCalls
  /\ seen[<<run, example>>].again
  /\ outcome.kind = "returned"
  /\ \E c \in ProbeCalls :
       /\ c # <<run, example>>
       /\ seen[c] # Unseen
       /\ seen[c].outcome # outcome

\* C9: when evaluate returns, its steps were prepare_evaluator_inputs, one
\* call of the wrapped evaluator, and the merge, in this order; the wrapped
\* evaluator got the three fields prepare_evaluator_inputs produced; and
\* every entry of its result with a key other than "key" is in the returned
\* mapping unchanged.  The wrapped evaluator is never invoked before
\* prepare_evaluator_inputs has returned.
C9_PrepareScoreMerge ==
  /\ ScoreCalls >= 1 =>
       /\ trace[1].step = "prepare_evaluator_inputs"
       /\ trace[2].step = "evaluate_strings"
       /\ ScoreCalls = 1
  /\ outcome.kind = "returned" =>
       /\ Steps = <<"prepare_evaluator_inputs", "evaluate_strings", "return">>
       /\ eval_inputs = prepare_evaluator_inputs(evaluator, run, example).value
       /\ trace[2].args.prediction = eval_inputs.prediction
       /\ trace[2].args.reference = eval_inputs.reference
       /\ trace[2].args.input = eval_inputs.input
       /\ \A i \in 1..Len(results) :
            results[i][1] # "key" =>
              /\ HasKey(outcome.value, results[i][1])
              /\ GetItem(outcome.value, results[i][1]) = results[i][2]

C9_Witness ==
  /\ outcome.kind = "returned"
  /\ eval_inputs.prediction # eval_inputs.reference
  /\ eval_inputs.input # None
  /\ \E i \in 1..Len(results) : results[i][1] # "key"

\* C10: a call with example None never invokes the wrapped evaluator and
\* never returns a mapping, whether or not a reference is required: it ends
\* with an error raised by prepare_evaluator_inputs.
C10_NullExampleAlwaysRaises ==
  (pc # "idle" /\ example = None) =>
    /\ ScoreCalls = 0
    /\ pc \in {"prepare", "done"}
    /\ Finished => (outcome.kind = "raised" /\ PrepareRaised)

C10_Witness ==
  /\ Finished
  /\ example = None
  /\ ~evaluator.requires_reference
  /\ run.outputs # << >>
  /\ outcome.kind = "raised"
  /\ outcome.error = AttributeError

====
